---- MODULE Spec2Model ----
(***************************************************************************)
(* A model of the zap-shift parcel server: the process-wide MongoDB        *)
(* connection cache (connectToDatabase), the Express route handlers that   *)
(* use it, and the parcels collection they operate on.                     *)
(*                                                                         *)
(* Node runs one handler at a time and switches only at an await, so every *)
(* action below is the code between two awaits of one request: the         *)
(* synchronous code that follows the completion of the awaited call, up to *)
(* the next await or to the response.                                      *)
(*                                                                         *)
(* Two server files are modelled: "api" is src/api/index.js (the           *)
(* serverless server, lines 263-710; lines 1-261 hold an earlier copy of   *)
(* the same connectToDatabase and list/insert routes) and "standalone" is  *)
(* src/unnamed/part_000 (the long-running server that connects once at     *)
(* start-up).                                                              *)
(***************************************************************************)
EXTENDS Naturals, Sequences, FiniteSets, TLC

VARIABLES
    variant,            \* which server file this process runs
    hasCreds,           \* process.env.DB_USER && process.env.DB_PASSWORD
    cachedClient,       \* api: let cachedClient   (0 is null)
    cachedDb,           \* api: let cachedDb       (the client it was derived from)
    cachedCollection,   \* api: let cachedCollection
    parcelsCollection,  \* standalone: let parcelsCollection (0 is undefined)
    runDone,            \* standalone: run()'s client.connect() has settled
    numClients,         \* MongoClient objects on which connect() was called
    open,               \* clients whose connect() succeeded (none is ever closed)
    store,              \* the documents of parcelDB.parcels
    numInserted,        \* ObjectIds the store has generated for inserts
    req                 \* the requests in flight, one record per slot

vars == <<variant, hasCreds, cachedClient, cachedDb, cachedCollection,
          parcelsCollection, runDone, numClients, open, store, numInserted, req>>

connVars == <<cachedClient, cachedDb, cachedCollection, numClients, open>>

-----------------------------------------------------------------------------
(* Bounds of the model. *)

\* connect() calls in one run of the process
MaxClients == 2

\* documents inserted in one run of the process
MaxInserts == 1

\* requests in flight at once under Spec
NumSlots == 2

-----------------------------------------------------------------------------
(* Strings are sequences of one-character strings. *)

Null == 0

\* a value that is not there (undefined): no string is equal to it
Absent == <<"<absent>">>

Repeat(c, n) == [i \in 1..n |-> c]

\* text of an ObjectId: ObjectId.isValid accepts a string of this many hex digits
ObjectIdHexLen == 24

LowerHex == {"0", "1", "2", "3", "4", "5", "6", "7", "8", "9",
             "a", "b", "c", "d", "e", "f"}
UpperHex == {"A", "B", "C", "D", "E", "F"}

WhiteSpace == {" ", "\t", "\n"}

LowerChar(c) ==
    CASE c = "A" -> "a" [] c = "B" -> "b" [] c = "C" -> "c"
      [] c = "D" -> "d" [] c = "E" -> "e" [] c = "F" -> "f"
      [] OTHER -> c

\* String.prototype.trim
RECURSIVE TrimLeft(_)
TrimLeft(s) == IF s # <<>> /\ Head(s) \in WhiteSpace THEN TrimLeft(Tail(s)) ELSE s

RECURSIVE TrimRight(_)
TrimRight(s) ==
    IF s # <<>> /\ s[Len(s)] \in WhiteSpace
    THEN TrimRight(SubSeq(s, 1, Len(s) - 1))
    ELSE s

trim(s) == TrimRight(TrimLeft(s))

\* ObjectId.isValid on a string (Absent stands for undefined)
isValid(s) ==
    /\ s # Absent
    /\ Len(s) = ObjectIdHexLen
    /\ \A i \in 1..Len(s) : s[i] \in LowerHex \cup UpperHex

\* new ObjectId(s): the twelve bytes the hex text names
ObjectId(s) == <<"ObjectId", [i \in 1..Len(s) |-> LowerChar(s[i])]>>

\* an _id that was stored as a plain string
StringId(s) == <<"String", s>>

-----------------------------------------------------------------------------
(* The identifiers and documents the requests of the model carry. *)

HexA == Repeat("a", ObjectIdHexLen)
HexB == Repeat("b", ObjectIdHexLen)
HexC == Repeat("c", ObjectIdHexLen)
HexAUpper == Repeat("A", ObjectIdHexLen)
Legacy == <<"n", "o", "t", "-", "a", "-", "v", "a", "l", "i", "d", "-", "i", "d">>
Padded(s) == <<" ">> \o s \o <<" ">>
Blank == <<" ">>

\* documents older versions left in the collection
DocOid == [_id |-> ObjectId(HexA), id |-> Absent]
DocStr == [_id |-> StringId(HexA), id |-> Absent]
DocId == [_id |-> ObjectId(HexB), id |-> HexA]
DocLegacy == [_id |-> ObjectId(HexC), id |-> Legacy]

\* the i-th ObjectId the store generates for an inserted document
GeneratedId(i) ==
    ObjectId(Repeat("0", ObjectIdHexLen - 1)
             \o <<(<<"1", "2", "3", "4", "5", "6", "7", "8", "9">>)[i]>>)

-----------------------------------------------------------------------------
(* The filter of the list routes. *)

\* the fields the $or of the list routes tests
AliasFields(v) ==
    IF v = "api"
    THEN {"email", "userEmail", "senderEmail", "recipientEmail", "creatorEmail"}
    ELSE {"email", "userEmail", "senderEmail", "recipientEmail"}

\* the value of field f of document d (Absent when the document has no such field)
Field(d, f) == IF f \in DOMAIN d THEN d[f] ELSE Absent

\* { $regex: p, $options: 'i' } on the string s, for patterns of literal
\* characters and the metacharacter "." (any one character): the pattern
\* matches somewhere in s
RegexSearch(p, s) ==
    \E i \in 0..Len(s) :
        /\ i + Len(p) <= Len(s)
        /\ \A j \in 1..Len(p) : p[j] = "." \/ LowerChar(p[j]) = LowerChar(s[i + j])

\* let query = {}
EmptyQuery == [fields |-> {}, regex |-> Absent]

\* the query the list handler builds: GET /parcels filters only when email is
\* truthy, GET /parcels/user/:email always
EmailQuery(v, route, email) ==
    IF route = "GET /parcels" /\ (email = Absent \/ email = <<>>)
    THEN EmptyQuery
    ELSE [fields |-> AliasFields(v), regex |-> email]

\* collection.find(query) selects document d
QueryMatches(query, d) ==
    \/ query = EmptyQuery
    \/ \E f \in query.fields : Field(d, f) # Absent /\ RegexSearch(query.regex, Field(d, f))

-----------------------------------------------------------------------------
(* The routes. *)

Routes == {"GET /health", "GET /parcels", "GET /parcels/:id",
           "GET /parcels/user/:email", "POST /parcels",
           "DELETE /parcels/:id", "DELETE /api/parcels/:id", "DELETE /parcels"}

\* the routes each server file registers
RoutesOf(v) ==
    IF v = "api" THEN Routes
    ELSE Routes \ {"GET /parcels/:id", "DELETE /api/parcels/:id"}

\* routes whose handler reads an identifier
IdRoutes == {"GET /parcels/:id", "DELETE /parcels/:id", "DELETE /api/parcels/:id",
             "DELETE /parcels"}

\* routes whose identifier is a path segment (Express matches :id on one or more characters)
PathRoutes == IdRoutes \ {"DELETE /parcels"}

DeleteRoutes == {"DELETE /parcels/:id", "DELETE /api/parcels/:id", "DELETE /parcels"}

\* routes whose handler builds a filter from an email term
ListRoutes == {"GET /parcels", "GET /parcels/user/:email"}

-----------------------------------------------------------------------------
(* A request slot. *)

NewReq ==
    [pc         |-> "idle",    \* the await the handler is suspended at
     route      |-> "none",
     ident      |-> Absent,    \* req.params.id, or req.body.id || req.body._id || req.query.id
     body       |-> Absent,    \* POST: the id field of req.body
     email      |-> Absent,    \* req.query.email or req.params.email
     query      |-> EmptyQuery,  \* the filter the list handler built
     parcels    |-> {},        \* the documents the handler's find or findOne returned
     seen       |-> Null,      \* the cachedClient connectToDatabase found at its first test
     dropped    |-> FALSE,     \* this call's ping failed and it cleared the cache
     tries      |-> 0,         \* connect() calls this call of connectToDatabase made
     client     |-> Null,      \* const client of this call of connectToDatabase
     acquire    |-> "none",    \* how connectToDatabase ended: ok, config, connect
     handle     |-> Null,      \* the client connectToDatabase returned
     collection |-> Null,      \* the collection the handler destructured
     parcelId   |-> Absent,    \* the handler's parcelId
     calls      |-> <<>>,      \* the handler's store calls that settled: TRUE answered, FALSE threw
     issued     |-> <<>>,      \* the delete strategies issued against the store
     hit        |-> 0,         \* the strategy that deleted a document
     removed    |-> {},        \* the documents this request removed
     responses  |-> 0,         \* the responses the handler has sent
     status     |-> 0,         \* the HTTP status of the response
     receivedId |-> Absent,    \* the response body's receivedId
     deletedCount |-> 0,       \* the response body's deletedCount
     database   |-> "none"]    \* GET /health: the response body's database

\* res.status(s).json(...)
Respond(q, s) == [q EXCEPT !.pc = "done", !.status = s, !.responses = q.responses + 1]

-----------------------------------------------------------------------------
(* The handlers, from the point where they hold a collection. *)

\* ParcelIdOf without handleDeleteParcelById's trim
ParcelIdOf_NoTrim(v, route, ident) == ident

\* the handler's parcelId: handleDeleteParcelById trims it, the others take it as it came
ParcelIdOf(v, route, ident) ==
    IF v = "api" /\ route \in {"DELETE /parcels/:id", "DELETE /api/parcels/:id"}
    THEN trim(ident)
    ELSE ident

\* !parcelId
Falsy(p) == p = Absent \/ p = <<>>

\* the delete handlers' and the single fetch's test of the identifier
InvalidId(p) == Falsy(p) \/ ~isValid(p)

\* a call on the collection: a null collection throws a TypeError into the handler's catch
CallStore(q, op) ==
    IF q.collection = Null
    THEN IF q.route = "GET /health"
         THEN [Respond(q, 200) EXCEPT !.database = "error"]
         ELSE Respond(q, 500)
    ELSE [q EXCEPT !.pc = op]

\* the code that follows const { collection } = await connectToDatabase(),
\* or the test of parcelsCollection, up to the handler's next await
AfterAcquire(v, q) ==
    CASE q.route = "GET /health" -> CallStore(q, "healthFind")
      [] q.route \in ListRoutes ->
            CallStore([q EXCEPT !.query = EmailQuery(v, q.route, q.email)], "find")
      [] q.route = "POST /parcels" -> CallStore(q, "insertOne")
      [] q.route = "GET /parcels/:id" ->
            LET p == ParcelIdOf(v, q.route, q.ident) IN
            IF ~isValid(p)
            THEN [Respond(q, 400) EXCEPT !.parcelId = p, !.receivedId = p]
            ELSE CallStore([q EXCEPT !.parcelId = p], "findOne")
      [] q.route \in DeleteRoutes ->
            LET p == ParcelIdOf(v, q.route, q.ident) IN
            IF q.route = "DELETE /parcels" /\ Falsy(p)
            THEN [Respond(q, 400) EXCEPT !.parcelId = p]
            ELSE IF InvalidId(p)
            THEN [Respond(q, 400) EXCEPT !.parcelId = p, !.receivedId = p]
            ELSE LET c == CallStore([q EXCEPT !.parcelId = p], "deleteOne") IN
                 IF c.pc = "deleteOne" THEN [c EXCEPT !.issued = <<1>>] ELSE c

\* AcquireFailed of a delete handler that validated its identifier before it
\* called connectToDatabase
AcquireFailed_ValidatedFirst(q, why) ==
    IF q.route \in DeleteRoutes /\ InvalidId(q.ident)
    THEN [Respond(q, 400) EXCEPT !.acquire = why, !.parcelId = q.ident,
                                 !.receivedId = q.ident]
    ELSE IF q.route = "GET /health"
    THEN [Respond(q, 200) EXCEPT !.acquire = why, !.database = "error"]
    ELSE [Respond(q, 500) EXCEPT !.acquire = why]

\* connectToDatabase threw: the handler's catch (GET /health has a catch of its own)
AcquireFailed(q, why) ==
    IF q.route = "GET /health"
    THEN [Respond(q, 200) EXCEPT !.acquire = why, !.database = "error"]
    ELSE [Respond(q, 500) EXCEPT !.acquire = why]

\* connectToDatabase returned client c and collection coll
AcquireReturned(v, q, c, coll) ==
    AfterAcquire(v, [q EXCEPT !.acquire = "ok", !.handle = c, !.collection = coll])

-----------------------------------------------------------------------------
(* connectToDatabase (api). *)

\* TryConnect without the test of DB_USER and DB_PASSWORD
TryConnect_NoCredentialsTest(r, q) ==
    /\ numClients < MaxClients
    /\ numClients' = numClients + 1
    /\ req' = [req EXCEPT ![r] = [q EXCEPT !.pc = "connect",
                                           !.client = numClients + 1,
                                           !.tries = q.tries + 1]]

\* the try block up to await client.connect(): the credentials test throws,
\* or a new MongoClient starts connecting
TryConnect(r, q) ==
    IF ~hasCreds
    THEN /\ req' = [req EXCEPT ![r] = AcquireFailed(q, "config")]
         /\ UNCHANGED numClients
    ELSE /\ numClients < MaxClients
         /\ numClients' = numClients + 1
         /\ req' = [req EXCEPT ![r] = [q EXCEPT !.pc = "connect",
                                                !.client = numClients + 1,
                                                !.tries = q.tries + 1]]

\* connectToDatabase without the test of the cache: it connects on every call
connectToDatabase_NoReuse(r, q) ==
    /\ TryConnect(r, q)
    /\ UNCHANGED <<cachedClient, cachedDb, cachedCollection, open>>

\* the call, up to its first await: ping the cached connection, or connect
connectToDatabase(r, q) ==
    IF cachedClient # Null /\ cachedDb # Null /\ cachedCollection # Null
    THEN /\ req' = [req EXCEPT ![r] = [q EXCEPT !.pc = "ping", !.seen = cachedClient]]
         /\ UNCHANGED connVars
    ELSE /\ TryConnect(r, q)
         /\ UNCHANGED <<cachedClient, cachedDb, cachedCollection, open>>

\* PingDone whose catch does not clear the cache before it reconnects
PingDone_KeepsCache(r, ok) ==
    /\ req[r].pc = "ping"
    /\ IF ok
       THEN /\ req' = [req EXCEPT ![r] =
                          AcquireReturned(variant, req[r], cachedClient, cachedCollection)]
            /\ UNCHANGED connVars
       ELSE /\ TryConnect(r, [req[r] EXCEPT !.dropped = TRUE])
            /\ UNCHANGED <<cachedClient, cachedDb, cachedCollection, open>>
    /\ UNCHANGED <<variant, hasCreds, parcelsCollection, runDone, store, numInserted>>

\* PingDone whose catch clears cachedClient alone
PingDone_ClearsClientOnly(r, ok) ==
    /\ req[r].pc = "ping"
    /\ IF ok
       THEN /\ req' = [req EXCEPT ![r] =
                          AcquireReturned(variant, req[r], cachedClient, cachedCollection)]
            /\ UNCHANGED connVars
       ELSE /\ cachedClient' = Null
            /\ TryConnect(r, [req[r] EXCEPT !.dropped = TRUE])
            /\ UNCHANGED <<cachedDb, cachedCollection, open>>
    /\ UNCHANGED <<variant, hasCreds, parcelsCollection, runDone, store, numInserted>>

\* await cachedDb.admin().ping() settled: return what the cache holds now,
\* or clear the cache and fall through to the try block
PingDone(r, ok) ==
    /\ req[r].pc = "ping"
    /\ IF ok
       THEN /\ req' = [req EXCEPT ![r] =
                          AcquireReturned(variant, req[r], cachedClient, cachedCollection)]
            /\ UNCHANGED connVars
       ELSE /\ cachedClient' = Null
            /\ cachedDb' = Null
            /\ cachedCollection' = Null
            /\ TryConnect(r, [req[r] EXCEPT !.dropped = TRUE])
            /\ UNCHANGED open
    /\ UNCHANGED <<variant, hasCreds, parcelsCollection, runDone, store, numInserted>>

\* ConnectDone whose catch caches the client whose connect failed
ConnectDone_CachesFailed(r, ok) ==
    /\ req[r].pc = "connect"
    /\ cachedClient' = req[r].client
    /\ cachedDb' = req[r].client
    /\ cachedCollection' = req[r].client
    /\ IF ok
       THEN /\ open' = open \cup {req[r].client}
            /\ req' = [req EXCEPT ![r] =
                          AcquireReturned(variant, req[r], req[r].client, req[r].client)]
       ELSE /\ req' = [req EXCEPT ![r] = AcquireFailed(req[r], "connect")]
            /\ UNCHANGED open
    /\ UNCHANGED <<variant, hasCreds, parcelsCollection, runDone, numClients, store,
                   numInserted>>

\* await client.connect() settled: cache the client, its db and its collection
\* and return them, or rethrow
ConnectDone(r, ok) ==
    /\ req[r].pc = "connect"
    /\ IF ok
       THEN /\ cachedClient' = req[r].client
            /\ cachedDb' = req[r].client
            /\ cachedCollection' = req[r].client
            /\ open' = open \cup {req[r].client}
            /\ req' = [req EXCEPT ![r] =
                          AcquireReturned(variant, req[r], req[r].client, req[r].client)]
       ELSE /\ req' = [req EXCEPT ![r] = AcquireFailed(req[r], "connect")]
            /\ UNCHANGED <<cachedClient, cachedDb, cachedCollection, open>>
    /\ UNCHANGED <<variant, hasCreds, parcelsCollection, runDone, numClients, store,
                   numInserted>>

-----------------------------------------------------------------------------
(* run (standalone): the one connect at start-up. *)

RunConnectDone(ok) ==
    /\ variant = "standalone"
    /\ ~runDone
    /\ runDone' = TRUE
    /\ parcelsCollection' = IF ok THEN numClients ELSE parcelsCollection
    /\ open' = IF ok THEN open \cup {numClients} ELSE open
    /\ UNCHANGED <<variant, hasCreds, cachedClient, cachedDb, cachedCollection,
                   numClients, store, numInserted, req>>

-----------------------------------------------------------------------------
(* A request arrives: its handler runs to its first await or to its response. *)

Request(r, route, ident, body, email) ==
    /\ req[r].pc \in {"idle", "done"}
    /\ route \in RoutesOf(variant)
    /\ LET q == [NewReq EXCEPT !.route = route, !.ident = ident, !.body = body,
                               !.email = email] IN
       IF variant = "api"
       THEN IF route = "GET /health" /\ ~hasCreds
            THEN /\ req' = [req EXCEPT ![r] =
                               [Respond(q, 200) EXCEPT !.database = "disconnected"]]
                 /\ UNCHANGED connVars
            ELSE connectToDatabase(r, q)
       ELSE /\ req' = [req EXCEPT ![r] =
                 IF route = "GET /health"
                 THEN [Respond(q, 200) EXCEPT !.database =
                          IF parcelsCollection # Null THEN "connected" ELSE "disconnected"]
                 ELSE IF parcelsCollection = Null
                 THEN Respond(q, 503)
                 ELSE AfterAcquire(variant, [q EXCEPT !.handle = parcelsCollection,
                                                      !.collection = parcelsCollection])]
            /\ UNCHANGED connVars
    /\ UNCHANGED <<variant, hasCreds, parcelsCollection, runDone, store, numInserted>>

-----------------------------------------------------------------------------
(* The store answers (ok) or the call throws into the handler's catch. *)

\* request q once its store call in flight has settled
Settled(q, ok) == [q EXCEPT !.calls = Append(q.calls, ok)]

\* FindDone of a handler without a catch: a throw of the store call escapes
\* the handler and the request is left without a response
FindDone_Uncaught(r, ok) ==
    /\ req[r].pc = "find"
    /\ req' = [req EXCEPT ![r] =
          IF ok
          THEN [Respond(Settled(req[r], ok), 200) EXCEPT
                   !.parcels = {d \in store : QueryMatches(req[r].query, d)}]
          ELSE [Settled(req[r], ok) EXCEPT !.pc = "unanswered"]]
    /\ UNCHANGED <<variant, hasCreds, parcelsCollection, runDone, store, numInserted>>
    /\ UNCHANGED connVars

\* collection.find(query).sort(...).toArray()
FindDone(r, ok) ==
    /\ req[r].pc = "find"
    /\ req' = [req EXCEPT ![r] =
          IF ok
          THEN [Respond(Settled(req[r], ok), 200) EXCEPT
                   !.parcels = {d \in store : QueryMatches(req[r].query, d)}]
          ELSE Respond(Settled(req[r], ok), 500)]
    /\ UNCHANGED <<variant, hasCreds, parcelsCollection, runDone, store, numInserted>>
    /\ UNCHANGED connVars

\* HealthFindDone that reports "connected" whatever became of the findOne
HealthFindDone_AlwaysConnected(r, ok) ==
    /\ req[r].pc = "healthFind"
    /\ req' = [req EXCEPT ![r] =
                  [Respond(Settled(req[r], ok), 200) EXCEPT !.database = "connected"]]
    /\ UNCHANGED <<variant, hasCreds, parcelsCollection, runDone, store, numInserted>>
    /\ UNCHANGED connVars

\* GET /health: collection.findOne({}, ...)
HealthFindDone(r, ok) ==
    /\ req[r].pc = "healthFind"
    /\ req' = [req EXCEPT ![r] =
                  [Respond(Settled(req[r], ok), 200) EXCEPT
                      !.database = IF ok THEN "connected" ELSE "error"]]
    /\ UNCHANGED <<variant, hasCreds, parcelsCollection, runDone, store, numInserted>>
    /\ UNCHANGED connVars

\* GET /parcels/:id: collection.findOne({ _id: new ObjectId(parcelId) })
FindOneDone(r, ok) ==
    /\ req[r].pc = "findOne"
    /\ req' = [req EXCEPT ![r] =
          IF ~ok THEN Respond(Settled(req[r], ok), 500)
          ELSE IF \E d \in store : d._id = ObjectId(req[r].parcelId)
          THEN [Respond(Settled(req[r], ok), 200) EXCEPT
                   !.parcels = {d \in store : d._id = ObjectId(req[r].parcelId)}]
          ELSE Respond(Settled(req[r], ok), 404)]
    /\ UNCHANGED <<variant, hasCreds, parcelsCollection, runDone, store, numInserted>>
    /\ UNCHANGED connVars

\* POST /parcels: collection.insertOne(req.body); the store generates the _id
InsertOneDone(r, ok) ==
    /\ req[r].pc = "insertOne"
    /\ IF ok
       THEN /\ numInserted < MaxInserts
            /\ numInserted' = numInserted + 1
            /\ store' = store \cup {[_id |-> GeneratedId(numInserted + 1), id |-> req[r].body]}
            /\ req' = [req EXCEPT ![r] = Respond(Settled(req[r], ok), 201)]
       ELSE /\ req' = [req EXCEPT ![r] = Respond(Settled(req[r], ok), 500)]
            /\ UNCHANGED <<store, numInserted>>
    /\ UNCHANGED <<variant, hasCreds, parcelsCollection, runDone>>
    /\ UNCHANGED connVars

\* the filter of the k-th delete strategy
Matches(k, p, d) ==
    CASE k = 1 -> d._id = ObjectId(p)
      [] k = 2 -> d._id = StringId(p)
      [] k = 3 -> d.id = p

\* NextStrategy that does not test deletedCount: it runs all three strategies
NextStrategy_IgnoresCount(v, k, n) ==
    IF v = "api" /\ k < 3 THEN k + 1 ELSE 0

\* the strategy to issue after strategy k reported deletedCount n (0: none, respond)
NextStrategy(v, k, n) ==
    IF v = "api" /\ n = 0 /\ k < 3 THEN k + 1 ELSE 0

\* AfterDelete that answers a delete which found nothing as a validation error
AfterDelete_AbsentIsInvalid(v, q, k, n) ==
    IF NextStrategy(v, k, n) # 0
    THEN [q EXCEPT !.issued = Append(q.issued, NextStrategy(v, k, n))]
    ELSE IF n = 0
    THEN Respond(q, 400)
    ELSE [Respond(q, 200) EXCEPT !.deletedCount = n]

\* AfterDelete of a handler that keeps the result of its first deleteOne and
\* tests that one's deletedCount when the strategies are over
AfterDelete_FirstCountOnly(v, q, k, n) ==
    IF NextStrategy(v, k, n) # 0
    THEN [q EXCEPT !.issued = Append(q.issued, NextStrategy(v, k, n))]
    ELSE IF q.hit # 1
    THEN Respond(q, 404)
    ELSE [Respond(q, 200) EXCEPT !.deletedCount = n]

\* the handler's code after the k-th collection.deleteOne returned deletedCount n
AfterDelete(v, q, k, n) ==
    IF NextStrategy(v, k, n) # 0
    THEN [q EXCEPT !.issued = Append(q.issued, NextStrategy(v, k, n))]
    ELSE IF n = 0
    THEN Respond(q, 404)
    ELSE [Respond(q, 200) EXCEPT !.deletedCount = n]

\* DeleteOneDone whose store removes every document that matches the
\* identifier under any strategy (a deleteMany over the three filters)
DeleteOneDone_RemovesEveryMatch(r, ok) ==
    /\ req[r].pc = "deleteOne"
    /\ LET q == Settled(req[r], ok)
           k == q.issued[Len(q.issued)]
           found == {d \in store : \E j \in 1..3 : Matches(j, q.parcelId, d)}
       IN  IF ~ok
           THEN /\ req' = [req EXCEPT ![r] = Respond(q, 500)]
                /\ UNCHANGED store
           ELSE IF found = {}
           THEN /\ req' = [req EXCEPT ![r] = AfterDelete(variant, q, k, 0)]
                /\ UNCHANGED store
           ELSE /\ store' = store \ found
                /\ req' = [req EXCEPT ![r] =
                       AfterDelete(variant, [q EXCEPT !.hit = k,
                                                      !.removed = q.removed \cup found], k, 1)]
    /\ UNCHANGED <<variant, hasCreds, parcelsCollection, runDone, numInserted>>
    /\ UNCHANGED connVars

\* await collection.deleteOne(filter) settled: the store removed at most one
\* matching document
DeleteOneDone(r, ok) ==
    /\ req[r].pc = "deleteOne"
    /\ LET q == Settled(req[r], ok)
           k == q.issued[Len(q.issued)]
           found == {d \in store : Matches(k, q.parcelId, d)}
       IN  IF ~ok
           THEN /\ req' = [req EXCEPT ![r] = Respond(q, 500)]
                /\ UNCHANGED store
           ELSE IF found = {}
           THEN /\ req' = [req EXCEPT ![r] = AfterDelete(variant, q, k, 0)]
                /\ UNCHANGED store
           ELSE \E d \in found :
                /\ store' = store \ {d}
                /\ req' = [req EXCEPT ![r] =
                       AfterDelete(variant, [q EXCEPT !.hit = k,
                                                      !.removed = q.removed \cup {d}], k, 1)]
    /\ UNCHANGED <<variant, hasCreds, parcelsCollection, runDone, numInserted>>
    /\ UNCHANGED connVars

\* what a delete on the route answers for the identifier x over the documents
\* B when connectToDatabase and every store call succeed: the status, and the
\* documents of which the store removes one
DeleteResult(v, route, B, x) ==
    LET p == ParcelIdOf(v, route, x)
        hits == {k \in 1..3 : (v = "api" \/ k = 1) /\ \E d \in B : Matches(k, p, d)}
        first == CHOOSE k \in hits : \A j \in hits : k <= j
    IN  IF (route = "DELETE /parcels" /\ Falsy(p)) \/ InvalidId(p)
        THEN [status |-> 400, found |-> {}]
        ELSE IF hits = {}
        THEN [status |-> 404, found |-> {}]
        ELSE [status |-> 200, found |-> {d \in B : Matches(first, p, d)}]

-----------------------------------------------------------------------------
(* The specifications. *)

\* the process after its module has loaded; the standalone server has called
\* run(), which returns at once without credentials and else awaits its connect
InitWith(variants, stores, slots) ==
    /\ variant \in variants
    /\ hasCreds \in BOOLEAN
    /\ cachedClient = Null
    /\ cachedDb = Null
    /\ cachedCollection = Null
    /\ parcelsCollection = Null
    /\ runDone = (variant = "api" \/ ~hasCreds)
    /\ numClients = IF variant = "standalone" /\ hasCreds THEN 1 ELSE 0
    /\ open = {}
    /\ store \in stores
    /\ numInserted = 0
    /\ req = [r \in 1..slots |-> NewReq]

\* the identifiers a request of the route may carry, out of ids
IdentsOf(route, ids) ==
    IF route \in PathRoutes THEN ids
    ELSE IF route = "DELETE /parcels" THEN ids \cup {Absent}
    ELSE {Absent}

BodiesOf(route, bodies) == IF route = "POST /parcels" THEN bodies ELSE {Absent}

\* the email terms a request of the route may carry, out of emails: a path
\* segment is a string of one or more characters
EmailsOf(route, emails) ==
    IF route = "GET /parcels" THEN emails
    ELSE IF route = "GET /parcels/user/:email" THEN emails \ {Absent, <<>>}
    ELSE {Absent}

Arrive(r, routes, ids, bodies, emails) ==
    \E route \in routes :
        \E ident \in IdentsOf(route, ids), body \in BodiesOf(route, bodies),
           email \in EmailsOf(route, emails) :
            Request(r, route, ident, body, email)

\* an awaited call of request r settles
Settle(r) ==
    \E ok \in BOOLEAN :
        \/ PingDone(r, ok)
        \/ ConnectDone(r, ok)
        \/ FindDone(r, ok)
        \/ HealthFindDone(r, ok)
        \/ InsertOneDone(r, ok)
        \/ DeleteOneDone(r, ok)

\* Spec: the process serves NumSlots requests, which may overlap; request r is
\* the r-th to arrive
SpecRoutes == {"GET /health", "GET /parcels", "POST /parcels", "DELETE /parcels/:id"}
SpecIds == {HexA, Legacy}
SpecBodies == {Absent}
SpecEmails == {Absent}
SpecStores == {{DocOid}}

Slots == 1..NumSlots

Init == InitWith({"api", "standalone"}, SpecStores, NumSlots)

Next ==
    \/ \E r \in Slots :
          /\ req[r].pc = "idle"
          /\ \A s \in 1..(r - 1) : req[s].pc # "idle"
          /\ Arrive(r, SpecRoutes, SpecIds, SpecBodies, SpecEmails)
    \/ \E r \in Slots : Settle(r)
    \/ \E ok \in BOOLEAN : RunConnectDone(ok)

Spec == Init /\ [][Next]_vars

\* SeqSpec: one request at a time; every identifier and every legacy document
SeqIds == {HexA, HexAUpper, Padded(HexA), Legacy, Padded(Legacy), Blank}
SeqBodies == {HexA}
SeqEmails == {Absent, <<"a">>}
SeqStores == SUBSET {DocOid, DocStr, DocId, DocLegacy}

SeqInit == InitWith({"api", "standalone"}, SeqStores, 1)

SeqNext ==
    \/ Arrive(1, Routes, SeqIds, SeqBodies, SeqEmails)
    \/ Settle(1)
    \/ \E ok \in BOOLEAN : FindOneDone(1, ok)
    \/ \E ok \in BOOLEAN : RunConnectDone(ok)

SeqSpec == SeqInit /\ [][SeqNext]_vars

\* LiveSpec: one request at a time on every route, and every awaited call
\* settles: the driver resolves or rejects each promise (its calls time out),
\* and Node runs the continuation of a settled promise
LiveIds == {HexA, Legacy}
LiveBodies == {Absent}
LiveEmails == {Absent, <<"a">>}
LiveStores == {{DocOid, DocId}}

LiveInit == InitWith({"api", "standalone"}, LiveStores, 1)

\* an awaited call of request r settles, on any route
SettleAny(r) == Settle(r) \/ \E ok \in BOOLEAN : FindOneDone(r, ok)

LiveNext ==
    \/ Arrive(1, Routes, LiveIds, LiveBodies, LiveEmails)
    \/ SettleAny(1)
    \/ \E ok \in BOOLEAN : RunConnectDone(ok)

LiveSpec == LiveInit /\ [][LiveNext]_vars /\ WF_vars(SettleAny(1))

\* RaceSpec: the serverless server serves list requests that overlap, NumSlots
\* at a time, without end
RaceRoutes == {"GET /parcels"}
RaceStores == {{DocOid}}

RaceInit == InitWith({"api"}, RaceStores, NumSlots)

RaceNext ==
    \/ \E r \in Slots : Arrive(r, RaceRoutes, {Absent}, {Absent}, {Absent})
    \/ \E r \in Slots, ok \in BOOLEAN : PingDone(r, ok)
    \/ \E r \in Slots, ok \in BOOLEAN : ConnectDone(r, ok)
    \/ \E r \in Slots, ok \in BOOLEAN : FindDone(r, ok)

RaceSpec == RaceInit /\ [][RaceNext]_vars

\* DeleteSpec: NumSlots requests, deletes and inserts, which may overlap;
\* request r is the r-th to arrive
ConcRoutes == {"POST /parcels", "DELETE /parcels/:id", "DELETE /parcels"}
ConcIds == {HexA, Legacy}
ConcBodies == {HexA}
ConcStore == {DocStr, DocId}

DeleteInit == InitWith({"api", "standalone"}, {ConcStore}, NumSlots)

DeleteNext ==
    \/ \E r \in Slots :
          /\ req[r].pc = "idle"
          /\ \A s \in 1..(r - 1) : req[s].pc # "idle"
          /\ Arrive(r, ConcRoutes, ConcIds, ConcBodies, {Absent})
    \/ \E r \in Slots, ok \in BOOLEAN : PingDone(r, ok)
    \/ \E r \in Slots, ok \in BOOLEAN : ConnectDone(r, ok)
    \/ \E r \in Slots, ok \in BOOLEAN : InsertOneDone(r, ok)
    \/ \E r \in Slots, ok \in BOOLEAN : DeleteOneDone(r, ok)
    \/ \E ok \in BOOLEAN : RunConnectDone(ok)

DeleteSpec == DeleteInit /\ [][DeleteNext]_vars

\* FilterSpec: list requests, one at a time, over documents with alias fields
TermAB == <<"a", "b">>
TermDot == <<"a", ".", "b">>

DocByEmail == [_id |-> ObjectId(HexA), id |-> Absent, email |-> <<"x", "A", "B", "x">>]
DocByUser == [_id |-> ObjectId(HexB), id |-> Absent, userEmail |-> <<"a", "c", "b">>,
              senderEmail |-> <<"c">>]
DocByCreator == [_id |-> ObjectId(HexC), id |-> Absent, creatorEmail |-> TermAB,
                 recipientEmail |-> <<>>]
DocByDot == [_id |-> StringId(HexA), id |-> Absent, recipientEmail |-> TermDot]

FilterRoutes == ListRoutes
FilterEmails == {Absent, <<>>, TermAB, <<"A", "B">>, TermDot, <<"c">>}
FilterStores == SUBSET {DocByEmail, DocByUser, DocByCreator, DocByDot}

FilterInit == InitWith({"api", "standalone"}, FilterStores, 1)

FilterNext ==
    \/ Arrive(1, FilterRoutes, {Absent}, {Absent}, FilterEmails)
    \/ \E ok \in BOOLEAN : PingDone(1, ok)
    \/ \E ok \in BOOLEAN : ConnectDone(1, ok)
    \/ \E ok \in BOOLEAN : FindDone(1, ok)
    \/ \E ok \in BOOLEAN : RunConnectDone(ok)

FilterSpec == FilterInit /\ [][FilterNext]_vars

-----------------------------------------------------------------------------
(* Properties of the connection cache. *)

\* the awaits at which a call on the collection is in flight
StoreOps == {"find", "healthFind", "findOne", "insertOne", "deleteOne"}

\* request r arrives in this step
Arrives(r) == req[r].pc \in {"idle", "done"} /\ req'[r] # req[r]

\* C1: with one request at a time, a call of connectToDatabase that finds a
\* cached connection pings it instead of connecting, and when the ping succeeds
\* it returns the cached client and collection, which an earlier connect
\* opened, and makes no connect attempt.
ConnectionReuse ==
    [][\A r \in DOMAIN req :
          /\ (variant = "api" /\ Arrives(r) /\ cachedClient # Null)
                => /\ req'[r].pc = "ping"
                   /\ UNCHANGED connVars
          /\ (req[r].pc = "ping" /\ req'[r].acquire = "ok")
                => /\ cachedClient # Null
                   /\ req'[r].handle = cachedClient
                   /\ req'[r].collection = cachedCollection
                   /\ req'[r].handle \in open
                   /\ req'[r].tries = 0
                   /\ UNCHANGED connVars]_vars

ConnectionReuseWitness ==
    \E r \in DOMAIN req :
        /\ req[r].acquire = "ok"
        /\ req[r].seen # Null
        /\ ~req[r].dropped
        /\ req[r].handle = req[r].seen

\* C2: a call whose ping of the cached connection fails clears the three
\* cached references and makes one connect attempt on a new client; when that
\* connect succeeds the call caches the new client and returns it, and it is
\* neither the client it discarded nor any client opened before.
ReconnectAfterDeadConnection ==
    [][\A r \in DOMAIN req :
          /\ (req[r].pc = "ping" /\ req'[r].pc # "ping" /\ req'[r].acquire # "ok")
                => /\ cachedClient' = Null
                   /\ cachedDb' = Null
                   /\ cachedCollection' = Null
                   /\ req'[r].pc = "connect"
                   /\ numClients' = numClients + 1
                   /\ req'[r].client = numClients'
                   /\ req'[r].tries = 1
          /\ (req[r].pc = "connect" /\ req[r].dropped /\ req'[r].acquire = "ok")
                => /\ req'[r].handle = req[r].client
                   /\ req'[r].handle # Null
                   /\ req'[r].handle # req[r].seen
                   /\ req'[r].handle \notin open
                   /\ cachedClient' = req'[r].handle
                   /\ cachedDb' = req'[r].handle
                   /\ cachedCollection' = req'[r].handle
                   /\ req'[r].tries = 1
                   /\ numClients' = numClients]_vars

ReconnectAfterDeadConnectionWitness ==
    \E r \in DOMAIN req :
        /\ req[r].dropped
        /\ req[r].acquire = "ok"
        /\ req[r].seen # Null
        /\ req[r].handle # req[r].seen
        /\ cachedClient = req[r].handle

\* C3: at most one connection handle is in use: the cached client and the
\* collections on which requests have a store call in flight are one and the same.
AtMostOneHandle ==
    Cardinality(({cachedClient, parcelsCollection}
                 \cup {req[r].collection : r \in {s \in DOMAIN req : req[s].pc \in StoreOps}})
                \ {Null}) <= 1

\* C4: with one request at a time, every connection that was opened (none is
\* ever closed) is the one the cache refers to.
NoLeakedConnections == open \subseteq {cachedClient, parcelsCollection}

\* C5: without credentials connectToDatabase never pings or connects, the
\* cache stays empty, and every call of it, however often repeated, ends in
\* the configuration error.
ConfigurationFailure ==
    (variant = "api" /\ ~hasCreds) =>
        /\ numClients = 0
        /\ open = {}
        /\ cachedClient = Null /\ cachedDb = Null /\ cachedCollection = Null
        /\ \A r \in DOMAIN req :
              /\ req[r].pc \in {"idle", "done"}
              /\ req[r].handle = Null
              /\ req[r].tries = 0
              /\ (req[r].pc = "done" /\ req[r].route # "GET /health")
                    => req[r].acquire = "config"

ConfigurationFailureWitness ==
    /\ variant = "api"
    /\ ~hasCreds
    /\ \A r \in DOMAIN req : req[r].pc = "done" /\ req[r].acquire = "config"

\* C6: without credentials every route that uses the store answers 503.
MissingCredentialsAnswered503 ==
    \A r \in DOMAIN req :
        (~hasCreds /\ req[r].pc = "done" /\ req[r].route # "GET /health")
            => req[r].status = 503

-----------------------------------------------------------------------------
(* Properties of the delete handlers. *)

\* the documents the store held when request r began to delete
Before(r) == store \cup req[r].removed

\* C8: in src/api/index.js a delete issues its strategies in the order 1
\* (ObjectId _id), 2 (string _id), 3 (id field); the strategy that deletes a
\* document is the last one issued, it is the first whose filter matches, and
\* the request answers 200; 404 is answered only after all three were issued
\* and none of them matched.
OrderedDeleteStrategies ==
    \A r \in DOMAIN req :
        (variant = "api" /\ req[r].route \in DeleteRoutes) =>
            LET q == req[r]
                p == q.parcelId
                byOid == {d \in Before(r) : d._id = ObjectId(p)}
                byStr == {d \in Before(r) : d._id = StringId(p)}
                byId == {d \in Before(r) : d.id = p}
            IN  /\ Len(q.issued) <= 3
                /\ \A i \in 1..Len(q.issued) : q.issued[i] = i
                /\ (q.hit = 0) => q.removed = {}
                /\ (q.hit # 0)
                      => /\ Len(q.issued) = q.hit
                         /\ q.pc = "done" /\ q.status = 200
                         /\ Cardinality(q.removed) = 1
                /\ (q.hit = 1) => q.removed \subseteq byOid
                /\ (q.hit = 2) => (byOid = {} /\ q.removed \subseteq byStr)
                /\ (q.hit = 3) => (byOid = {} /\ byStr = {} /\ q.removed \subseteq byId)
                /\ (q.pc = "done" /\ q.status = 404)
                      => /\ q.issued = <<1, 2, 3>>
                         /\ q.hit = 0
                         /\ byOid = {} /\ byStr = {} /\ byId = {}
                /\ (q.pc = "done" /\ q.status = 200) => q.hit # 0

OrderedDeleteStrategiesWitness ==
    /\ variant = "api"
    /\ \E r \in DOMAIN req :
          /\ req[r].route \in DeleteRoutes
          /\ req[r].pc = "done"
          /\ req[r].status = 200
          /\ req[r].hit = 3
          /\ req[r].issued = <<1, 2, 3>>

\* C9: a delete whose identifier is a non-empty string that is not in ObjectId
\* format, and equals the id field or the string _id of a stored document,
\* deletes a document and answers 200.
NonLocatorFallback ==
    \A r \in DOMAIN req :
        ( /\ req[r].pc = "done"
          /\ req[r].route \in DeleteRoutes
          /\ req[r].collection # Null
          /\ req[r].status # 500
          /\ ~Falsy(req[r].ident)
          /\ ~isValid(req[r].ident)
          /\ \E d \in Before(r) : d.id = req[r].ident \/ d._id = StringId(req[r].ident) )
            => (req[r].status = 200 /\ req[r].removed # {})

\* C10 as stated: DELETE /parcels/<id> with an identifier that is not in
\* ObjectId format answers 400 with receivedId equal to the identifier as
\* the caller sent it, and issues no delete.
InvalidFormatEchoesLiteral ==
    \A r \in DOMAIN req :
        ( /\ req[r].pc = "done"
          /\ req[r].route = "DELETE /parcels/:id"
          /\ req[r].collection # Null
          /\ ~isValid(req[r].ident) )
            => /\ req[r].status = 400
               /\ req[r].receivedId = req[r].ident
               /\ req[r].issued = <<>>

\* C10 as amended: DELETE /parcels/<id> and DELETE /api/parcels/<id>, once the
\* handler holds a collection, answer 400 and issue no delete when the
\* identifier the handler validates (the path segment trimmed in
\* src/api/index.js, as it came in the standalone server) is not in ObjectId
\* format, and receivedId is that identifier.
InvalidFormatEchoesParcelId ==
    \A r \in DOMAIN req :
        ( /\ req[r].pc = "done"
          /\ req[r].route \in {"DELETE /parcels/:id", "DELETE /api/parcels/:id"}
          /\ req[r].collection # Null )
            => LET p == IF variant = "api" THEN trim(req[r].ident) ELSE req[r].ident
               IN  (~isValid(p))
                      => /\ req[r].status = 400
                         /\ req[r].receivedId = p
                         /\ req[r].issued = <<>>
                         /\ req[r].removed = {}

InvalidFormatEchoesParcelIdWitness ==
    /\ variant = "api"
    /\ \E r \in DOMAIN req :
          /\ req[r].pc = "done"
          /\ req[r].route = "DELETE /parcels/:id"
          /\ req[r].ident = Padded(Legacy)
          /\ req[r].status = 400
          /\ req[r].receivedId = Legacy

-----------------------------------------------------------------------------
(* Properties of the identifier routes. *)

\* identifier x is in ObjectId format and no document of the store matches it
\* under any of the three strategies
WellFormedAbsent(x) ==
    /\ isValid(x)
    /\ \A d \in store :
          /\ d._id # ObjectId(x)
          /\ d._id # StringId(x)
          /\ d.id # x

\* C11: with one request at a time, no step of a delete or a single fetch whose
\* identifier is in ObjectId format and matches no document under any of the
\* three strategies changes the store or answers 400; once the handler holds
\* a collection and no store call throws, the request answers 404.
WellFormedAbsentIsNotFound ==
    [][\A r \in DOMAIN req :
          ( /\ req'[r] # req[r]
            /\ req'[r].route \in IdRoutes
            /\ WellFormedAbsent(req'[r].ident) )
              => /\ store' = store
                 /\ req'[r].removed = {}
                 /\ req'[r].status # 400
                 /\ (req'[r].pc = "done" /\ req'[r].collection # Null
                                         /\ req'[r].status # 500)
                       => req'[r].status = 404]_vars

WellFormedAbsentIsNotFoundWitness ==
    /\ store # {}
    /\ \E r \in DOMAIN req :
          /\ req[r].route \in DeleteRoutes
          /\ req[r].ident = HexAUpper
          /\ WellFormedAbsent(req[r].ident)
          /\ req[r].pc = "done"
          /\ req[r].issued = <<1, 2, 3>>
          /\ req[r].status = 404

\* C12: a delete that answers 200 has removed exactly one document, which
\* matched its identifier, and reports deletedCount 1, also when several
\* documents match under different strategies; a delete that answers anything
\* else has removed nothing and reports no count; a delete that reached the
\* store, matched nothing under the strategies it issued and met no store
\* error answers 404.
DeleteCardinality ==
    \A r \in DOMAIN req :
        (req[r].route \in DeleteRoutes) =>
            LET q == req[r] IN
            /\ Cardinality(q.removed) <= 1
            /\ q.removed \cap store = {}
            /\ \A d \in q.removed : \E k \in 1..3 : Matches(k, q.parcelId, d)
            /\ (q.pc = "done" /\ q.status = 200)
                  => (Cardinality(q.removed) = 1 /\ q.deletedCount = 1)
            /\ (q.pc = "done" /\ q.status # 200)
                  => (q.removed = {} /\ q.deletedCount = 0)
            /\ (q.pc # "done") => q.removed = {}
            /\ ( /\ q.pc = "done"
                 /\ q.issued # <<>>
                 /\ q.status # 500
                 /\ \A d \in Before(r), i \in 1..Len(q.issued) :
                       ~Matches(q.issued[i], q.parcelId, d) )
                  => q.status = 404

DeleteCardinalityWitness ==
    \E r \in DOMAIN req :
        /\ req[r].route \in DeleteRoutes
        /\ req[r].pc = "done"
        /\ req[r].status = 200
        /\ req[r].parcelId = HexA
        /\ req[r].removed = {DocOid}
        /\ store = {DocStr, DocId}

-----------------------------------------------------------------------------
(* Properties of the list routes. *)

\* the string s contains the string t, letter case ignored
ContainsIgnoreCase(s, t) ==
    \E i \in 0..Len(s) :
        /\ i + Len(t) <= Len(s)
        /\ \A j \in 1..Len(t) : LowerChar(t[j]) = LowerChar(s[i + j])

\* C13: in every server file, the documents a list request returns are those
\* of which at least one of the five alias fields contains the email term as a
\* case-insensitive substring, and all documents when GET /parcels has an
\* empty or absent term.
EmailFilterSemantics ==
    \A r \in DOMAIN req :
        (req[r].route \in ListRoutes /\ req[r].pc = "done" /\ req[r].status = 200) =>
            req[r].parcels =
                {d \in store :
                    \/ req[r].email = Absent
                    \/ req[r].email = <<>>
                    \/ \E f \in {"email", "userEmail", "senderEmail", "recipientEmail",
                                 "creatorEmail"} :
                          /\ Field(d, f) # Absent
                          /\ ContainsIgnoreCase(Field(d, f), req[r].email)}

-----------------------------------------------------------------------------
(* Properties of the single fetch and of the delete routes taken together. *)

\* C14: GET /parcels/<id>, once the handler holds a collection and the store
\* call does not throw, resolves the identifier by the three strategies in
\* the order of delete (ObjectId _id, string _id, id field) and answers 200
\* with the first document found, 404 when an identifier in ObjectId format
\* matches nothing, and 400 only when the identifier is not in ObjectId format
\* and no strategy matches.
SingleFetchUsesResolver ==
    \A r \in DOMAIN req :
        ( /\ req[r].route = "GET /parcels/:id"
          /\ req[r].pc = "done"
          /\ req[r].collection # Null
          /\ req[r].status # 500 ) =>
            LET x == req[r].ident
                byOid == {d \in store : isValid(x) /\ d._id = ObjectId(x)}
                byStr == {d \in store : d._id = StringId(x)}
                byId == {d \in store : d.id = x}
                first == IF byOid # {} THEN byOid ELSE IF byStr # {} THEN byStr ELSE byId
            IN  /\ (first # {})
                      => /\ req[r].status = 200
                         /\ Cardinality(req[r].parcels) = 1
                         /\ req[r].parcels \subseteq first
                /\ (first = {} /\ isValid(x)) => req[r].status = 404
                /\ (first = {} /\ ~isValid(x)) => req[r].status = 400

\* C15: the delete routes are equivalent: a delete that held a collection
\* and met no store error answered, and removed, what a delete on any other
\* delete route of the server would have for the same documents and the same
\* identifier, white space around it or a missing identifier included.
DeleteRoutesEquivalent ==
    \A r \in DOMAIN req :
        ( /\ req[r].route \in DeleteRoutes
          /\ req[r].pc = "done"
          /\ req[r].collection # Null
          /\ req[r].status # 500 ) =>
            \A route \in DeleteRoutes \cap RoutesOf(variant) :
                LET o == DeleteResult(variant, route, Before(r), req[r].ident)
                IN  /\ req[r].status = o.status
                    /\ req[r].removed \subseteq o.found
                    /\ Cardinality(req[r].removed) = IF o.found = {} THEN 0 ELSE 1

-----------------------------------------------------------------------------
(* Properties of the health check and of the handlers' control flow. *)

\* C16: in src/api/index.js GET /health always answers 200; without
\* credentials it answers at once with database "disconnected", calling
\* neither connectToDatabase nor the store; with credentials it makes at most
\* one store call after connectToDatabase, exactly one when connectToDatabase
\* returned a collection, and it reports "connected" when connectToDatabase
\* returned and that call answered, "error" otherwise; the steps of the
\* handler outside connectToDatabase leave the cache and the store unchanged.
HealthCheck ==
    /\ [](\A r \in DOMAIN req :
            (variant = "api" /\ req[r].route = "GET /health") =>
                LET q == req[r] IN
                /\ Len(q.calls) <= 1
                /\ (q.pc = "done") => q.status = 200
                /\ (~hasCreds)
                      => /\ q.pc = "done"
                         /\ q.database = "disconnected"
                         /\ q.calls = <<>>
                         /\ q.acquire = "none" /\ q.seen = Null /\ q.tries = 0
                /\ (hasCreds /\ q.pc = "done")
                      => /\ q.database = IF q.acquire = "ok" /\ q.calls = <<TRUE>>
                                         THEN "connected" ELSE "error"
                         /\ (q.acquire = "ok" /\ q.collection # Null) => Len(q.calls) = 1
                         /\ (q.acquire # "ok" \/ q.collection = Null) => q.calls = <<>>)
    /\ [][\A r \in DOMAIN req :
             ( /\ variant = "api"
               /\ req'[r] # req[r]
               /\ req'[r].route = "GET /health"
               /\ req[r].pc \notin {"ping", "connect"}
               /\ req'[r].pc \notin {"ping", "connect"} )
                 => UNCHANGED <<connVars, store>>]_vars

HealthCheckWitness ==
    /\ variant = "api"
    /\ \E r, s \in DOMAIN req :
          /\ req[r].route = "GET /health" /\ req[s].route = "GET /health"
          /\ req[r].pc = "done" /\ req[s].pc = "done"
          /\ req[r].database = "connected" /\ req[r].calls = <<TRUE>>
          /\ req[s].database = "error" /\ req[s].calls = <<FALSE>>

\* C17: on every route that uses the store, as long as connectToDatabase has
\* not returned (in the standalone server: when parcelsCollection is not set)
\* the handler has read no identifier, built no filter, issued no store call
\* and answered neither 400 nor 404; when connectToDatabase throws, the
\* request is answered 500 (503 in the standalone server), also when its
\* identifier is malformed.
AcquireFirst ==
    \A r \in DOMAIN req :
        LET q == req[r]
            acquired == IF variant = "api" THEN q.acquire = "ok" ELSE q.handle # Null
        IN  (q.route \in Routes \ {"GET /health"} /\ ~acquired) =>
                /\ q.parcelId = Absent
                /\ q.receivedId = Absent
                /\ q.query = EmptyQuery
                /\ q.issued = <<>>
                /\ q.calls = <<>>
                /\ q.pc \in {"ping", "connect", "done"}
                /\ (q.pc = "done")
                      => q.status = IF variant = "api" THEN 500 ELSE 503

AcquireFirstWitness ==
    /\ variant = "api"
    /\ \E r \in DOMAIN req :
          /\ req[r].route \in DeleteRoutes
          /\ req[r].ident = Legacy
          /\ req[r].acquire = "connect"
          /\ req[r].pc = "done"
          /\ req[r].status = 500

\* the statuses of the error taxonomy
Taxonomy == {200, 201, 400, 404, 500, 503}

\* C18: whatever connectToDatabase and each store call do (answer or throw,
\* also between two delete strategies), a request that has arrived is
\* eventually answered; a handler sends no response while it awaits and
\* exactly one when it is done, with a status of the taxonomy.
ExactlyOneResponse ==
    /\ [](\A r \in DOMAIN req :
            /\ req[r].responses = IF req[r].pc = "done" THEN 1 ELSE 0
            /\ (req[r].pc = "done") => req[r].status \in Taxonomy
            /\ (req[r].pc # "done") => req[r].status = 0)
    /\ (req[1].pc \notin {"idle", "done"}) ~> (req[1].pc = "done")

ExactlyOneResponseWitness ==
    /\ variant = "api"
    /\ req[1].route \in DeleteRoutes
    /\ req[1].calls = <<TRUE, FALSE>>
    /\ req[1].pc = "done"
    /\ req[1].responses = 1
    /\ req[1].status = 500

-----------------------------------------------------------------------------
(* Properties of the connection cache under overlapping calls. *)

\* C19: every call of connectToDatabase that returns, returns a client and a
\* collection that are not null and that a successful connect produced.
AcquireYieldsLiveHandle ==
    \A r \in DOMAIN req :
        (req[r].acquire = "ok") =>
            /\ req[r].handle # Null
            /\ req[r].collection # Null
            /\ req[r].handle \in open

\* C20: the three cached references are all null or all set, and when set
\* cachedDb and cachedCollection are those of cachedClient, whose connect
\* succeeded; this holds in every state, so also right after a failed ping
\* and after a failed connect.
CacheSlotConsistent ==
    \/ cachedClient = Null /\ cachedDb = Null /\ cachedCollection = Null
    \/ /\ cachedClient # Null
       /\ cachedDb = cachedClient
       /\ cachedCollection = cachedClient
       /\ cachedClient \in open

CacheSlotConsistentWitness ==
    /\ open # {}
    /\ cachedClient = Null /\ cachedDb = Null /\ cachedCollection = Null
    /\ \E r \in DOMAIN req :
          /\ req[r].seen \in open
          /\ req[r].dropped
          /\ req[r].acquire = "connect"
          /\ req[r].pc = "done"

-----------------------------------------------------------------------------
(* Properties of overlapping deletes. *)

\* the documents the collection has ever held under DeleteSpec: those it began
\* with and those the inserts added
EverStored ==
    ConcStore \cup {[_id |-> GeneratedId(i), id |-> b] : i \in 1..numInserted, b \in ConcBodies}

\* the delete requests that have answered 200
Deleted200 ==
    {r \in DOMAIN req : req[r].route \in DeleteRoutes /\ req[r].pc = "done"
                                                        /\ req[r].status = 200}

\* C21: however deletes (several for one identifier included) and inserts
\* overlap, the documents gone from the store are as many as the delete
\* requests that answered 200: each of those removed exactly one document, no
\* two of them the same one, and a request that answered 400, 404 or 500, or
\* has not answered yet, removed none.
ConcurrentDeletesAccounted ==
    /\ store \subseteq EverStored
    /\ Cardinality(EverStored \ store) = Cardinality(Deleted200)
    /\ EverStored \ store = UNION {req[r].removed : r \in Deleted200}
    /\ \A r \in Deleted200 : Cardinality(req[r].removed) = 1
    /\ \A r, s \in Deleted200 : (r # s) => req[r].removed \cap req[s].removed = {}
    /\ \A r \in DOMAIN req \ Deleted200 : req[r].removed = {}

ConcurrentDeletesAccountedWitness ==
    /\ variant = "api"
    /\ \E r, s \in Deleted200 :
          /\ r # s
          /\ req[r].parcelId = HexA /\ req[s].parcelId = HexA
          /\ req[r].issued = <<1, 2>>
          /\ req[r].removed = {DocStr}
          /\ req[s].issued = <<1, 2, 3>>
          /\ req[s].removed = {DocId}
    /\ store = {}

====
